---- MODULE Spec2Model ----
(***************************************************************************)
(* Model of runner/lib/sockets/js.py: the websocket handler NODE and the   *)
(* execution bridge execute_NODE.                                          *)
(*                                                                         *)
(* All handlers are coroutines of one asyncio event loop: a task runs      *)
(* until it reaches an await (the async-for receive of NODE, line 28, and  *)
(* the websocket.send of execute_NODE, line 19).  child.expect (line 16)   *)
(* is a plain blocking call: while it waits, no other task runs.  The      *)
(* interpreter processes are operating-system processes and run in         *)
(* parallel with the event loop.                                           *)
(***************************************************************************)
EXTENDS Integers, Sequences, FiniteSets, TLC

\* ---------------------------------------------------------------- bounds
\* Payloads the clients send in total, over all connections.
MaxPayloads == 3

Conns == {"c1", "c2"}
Codes == {"A", "H"}

None == "none"
Absent == "absent"

TEMP_NODE_FILE == "temp.js"

\* Result indexes of child.expect(['.', '\n', EOF, TIMEOUT]) (0-based).
IDX_DOT == 0
IDX_NL == 1
IDX_EOF == 2
IDX_TIMEOUT == 3
NoIndex == 0 - 1

\* An invocation of execute_NODE: the n-th payload taken on connection c.
Inv == Conns \X (1..MaxPayloads)
NoInv == <<None, 0>>
ConnOf(i) == i[1]
NumOf(i) == i[2]

VARIABLES
    conn,      \* conn[c]: "open", "closedOK" (normal close), "closedErr"
    inbox,     \* inbox[c]: payloads received from the client, not yet taken
    nsent,     \* payloads the clients have sent so far, in total
    taken,     \* taken[c]: payloads NODE has taken from the connection
    nodepc,    \* nodepc[c]: position of NODE(websocket)
    err,       \* err[c]: exception that left NODE, or None
    frames,    \* frames[c]: text frames delivered to connection c
    pc,        \* pc[i]: position of invocation i of execute_NODE
    code,      \* code[i]: the code argument
    index,     \* index[i]: local variable index (last result of expect)
    before,    \* before[i]: child.before
    after,     \* after[i]: child.after
    buffer,    \* buffer[i]: pexpect's buffer of read, unmatched output
    child,     \* child[i]: interpreter process state: None, "starting",
               \* "running", "exited" (by itself), "killed" (terminated)
    loaded,    \* loaded[i]: what the interpreter read from temp.js
    loadedBy,  \* loadedBy[i]: the invocation that had written what it read
    pos,       \* pos[i]: characters the interpreter has written so far
    pty,       \* pty[i]: output written to the pty, not yet read
    file,      \* content of temp.js, or Absent
    fileBy,    \* the invocation that wrote temp.js last, or NoInv
    lost,      \* lost[i]: "removed" once another invocation has removed
               \* temp.js while i was using it, "rewritten" once the file
               \* has been written again after that, "no" otherwise
    nodeOK,    \* the node binary is present and executable
    running    \* invocation that holds the event loop, or NoInv

vars == <<conn, inbox, nsent, taken, nodepc, err, frames, pc, code, index,
          before, after, buffer, child, loaded, loadedBy, pos, pty, file,
          fileBy, lost, nodeOK, running>>

clientVars == <<conn, inbox, nsent>>
nodeVars == <<taken, nodepc, err>>
expectVars == <<index, before, after, buffer>>
procVars == <<child, loaded, loadedBy, pos, pty>>
fileVars == <<file, fileBy, lost>>

\* Invocation i has written temp.js and has not ended.
HasUnit(i) == pc[i] \in {"spawn", "expect", "isalive", "send", "remove"}

\* ------------------------------------------------------------ interpreter
\* What `node temp.js` prints on its terminal for each source text, and
\* whether it exits by itself.  "A" prints a line; "H" is a silent endless
\* loop.  With temp.js missing node prints a diagnostic and exits.
Output(text) ==
    CASE text = "A" -> <<"a", "\n">>
      [] text = "H" -> <<>>
      [] OTHER -> <<"E", "\n">>

Halts(text) == text # "H"

\* The terminal output interpreter i has produced so far.
Produced(i) == SubSeq(Output(loaded[i]), 1, pos[i])

\* ----------------------------------------------------------- child.expect
EOFMark == <<"<EOF>">>
TIMEOUTMark == <<"<TIMEOUT>">>

Min(S) == CHOOSE x \in S : \A y \in S : x <= y

\* Variant: the first pattern is an escaped, literal dot.
PatternMatches_LiteralDot(p, ch) ==
    CASE p = IDX_DOT -> ch = "."
      [] p = IDX_NL -> ch = "\n"

\* The text patterns of the expect list, by index.  pexpect compiles string
\* patterns with re.DOTALL, so '.' matches every character, newline included.
PatternMatches(p, ch) ==
    CASE p = IDX_DOT -> TRUE
      [] p = IDX_NL -> ch = "\n"

TextPatterns == {IDX_DOT, IDX_NL}

\* Position of the first match of pattern p in win, 0 when there is none.
FirstMatch(p, win) ==
    LET S == {k \in 1..Len(win) : PatternMatches(p, win[k])}
    IN IF S = {} THEN 0 ELSE Min(S)

\* searcher_re.search: the pattern whose match starts first wins, the first
\* pattern of the list on a tie.  Every pattern here matches one character.
Search(win) ==
    LET hits == {p \in TextPatterns : FirstMatch(p, win) > 0}
    IN IF hits = {}
       THEN [index |-> NoIndex, start |-> 0, end |-> 0]
       ELSE LET first == Min({FirstMatch(p, win) : p \in hits})
                best == Min({p \in hits : FirstMatch(p, win) = first})
            IN [index |-> best, start |-> first, end |-> first]

\* --------------------------------------------------------------- scheduling
\* A step of invocation i can run when i holds the event loop or the loop is
\* free (every other task is suspended at an await).
Sched(i) == running = i \/ running = NoInv

\* Variant: the wait for output is awaited, so other tasks run meanwhile.
AfterExpect_Awaited(i) == NoInv

\* child.expect is a synchronous call: the task still holds the event loop
\* when it returns, whatever the result.
AfterExpect(i) == i

\* Variant: the file is written through an awaited call.
AfterWrite_Awaited(i) == NoInv

\* The with block and pexpect.spawn follow each other with no await between
\* them: the task holds the event loop from the write to the spawn.
AfterWrite(i) == i

\* Variant: NODE starts execute_NODE without awaiting its end.
NodeReady_NoAwait(c) == nodepc[c] \in {"recv", "exec"}

\* NODE awaits execute_NODE: it takes the next payload only from the
\* async-for receive, never while an invocation is in progress.
NodeReady(c) == nodepc[c] = "recv"

\* Variant: NODE swallows every exception.
NodeAfterRaise_CatchAll(exc) == "done"

\* The except clause of NODE: ConnectionClosedOK is swallowed, everything
\* else leaves NODE.
NodeAfterRaise(exc) == IF exc = "ConnectionClosedOK" THEN "done" ELSE "failed"
ErrAfterRaise(exc) == IF exc = "ConnectionClosedOK" THEN None ELSE exc

\* The text execute_NODE passes to websocket.send.
SentText(i) == after[i]

\* ---------------------------------------------------------------- initial
Init ==
    /\ conn = [c \in Conns |-> "open"]
    /\ inbox = [c \in Conns |-> <<>>]
    /\ nsent = 0
    /\ taken = [c \in Conns |-> 0]
    /\ nodepc = [c \in Conns |-> "recv"]
    /\ err = [c \in Conns |-> None]
    /\ frames = [c \in Conns |-> <<>>]
    /\ pc = [i \in Inv |-> "idle"]
    /\ code = [i \in Inv |-> None]
    /\ index = [i \in Inv |-> NoIndex]
    /\ before = [i \in Inv |-> <<>>]
    /\ after = [i \in Inv |-> <<>>]
    /\ buffer = [i \in Inv |-> <<>>]
    /\ child = [i \in Inv |-> None]
    /\ loaded = [i \in Inv |-> None]
    /\ loadedBy = [i \in Inv |-> NoInv]
    /\ pos = [i \in Inv |-> 0]
    /\ pty = [i \in Inv |-> <<>>]
    /\ file = Absent
    /\ fileBy = NoInv
    /\ lost = [i \in Inv |-> "no"]
    /\ nodeOK \in BOOLEAN
    /\ running = NoInv

\* ------------------------------------------------------------------ client
\* The client sends one payload of source text.
ClientSend(c, k) ==
    /\ conn[c] = "open"
    /\ nsent < MaxPayloads
    /\ inbox' = [inbox EXCEPT ![c] = Append(@, k)]
    /\ nsent' = nsent + 1
    /\ UNCHANGED <<conn, nodeVars, frames, pc, code, expectVars, procVars,
                   fileVars, nodeOK, running>>

\* The connection closes: normally (how = "closedOK") or with an error.
ClientClose(c, how) ==
    /\ conn[c] = "open"
    /\ conn' = [conn EXCEPT ![c] = how]
    /\ UNCHANGED <<inbox, nsent, nodeVars, frames, pc, code, expectVars,
                   procVars, fileVars, nodeOK, running>>

\* -------------------------------------------------------------------- NODE
\* async for code in websocket: the next payload arrives and execute_NODE
\* is entered with it.
Recv(c) ==
    /\ NodeReady(c)
    /\ running = NoInv
    /\ inbox[c] # <<>>
    /\ taken[c] < MaxPayloads
    /\ LET i == <<c, taken[c] + 1>> IN
        /\ taken' = [taken EXCEPT ![c] = @ + 1]
        /\ inbox' = [inbox EXCEPT ![c] = Tail(@)]
        /\ code' = [code EXCEPT ![i] = Head(inbox[c])]
        /\ pc' = [pc EXCEPT ![i] = "write"]
        /\ nodepc' = [nodepc EXCEPT ![c] = "exec"]
        /\ running' = i
    /\ UNCHANGED <<conn, nsent, err, frames, expectVars, procVars, fileVars,
                   nodeOK>>

\* async for code in websocket, with the connection closed and nothing left
\* to deliver: the iteration ends on a normal close and raises otherwise.
RecvClosed(c) ==
    /\ nodepc[c] = "recv"
    /\ running = NoInv
    /\ inbox[c] = <<>>
    /\ conn[c] # "open"
    /\ LET exc == IF conn[c] = "closedOK" THEN "ConnectionClosedOK"
                  ELSE "ConnectionClosedError" IN
        /\ nodepc' = [nodepc EXCEPT ![c] = NodeAfterRaise(exc)]
        /\ err' = [err EXCEPT ![c] = ErrAfterRaise(exc)]
    /\ UNCHANGED <<clientVars, taken, frames, pc, code, expectVars, procVars,
                   fileVars, nodeOK, running>>

\* ------------------------------------------------------------ execute_NODE
\* Variant: a failed invocation is started again with the same payload.
Raise_Retry(i, exc) ==
    /\ pc' = [pc EXCEPT ![i] = "write"]
    /\ running' = NoInv
    /\ UNCHANGED <<nodepc, err>>

\* An exception exc leaves invocation i and reaches NODE's try statement.
\* Nothing in execute_NODE catches it, so the statements after the raising
\* one are skipped.
Raise(i, exc) ==
    /\ pc' = [pc EXCEPT ![i] = "raised"]
    /\ nodepc' = [nodepc EXCEPT ![ConnOf(i)] = NodeAfterRaise(exc)]
    /\ err' = [err EXCEPT ![ConnOf(i)] = ErrAfterRaise(exc)]
    /\ running' = NoInv

\* with open(TEMP_NODE_FILE, 'w') as file: file.write(code)
Write(i) ==
    /\ pc[i] = "write"
    /\ Sched(i)
    /\ file' = code[i]
    /\ fileBy' = i
    /\ lost' = [j \in Inv |->
                   IF j # i /\ HasUnit(j) /\ lost[j] = "removed"
                   THEN "rewritten" ELSE lost[j]]
    /\ pc' = [pc EXCEPT ![i] = "spawn"]
    /\ running' = AfterWrite(i)
    /\ UNCHANGED <<clientVars, nodeVars, frames, code, expectVars, procVars,
                   nodeOK>>

\* child = pexpect.spawn("node temp.js"): starts the interpreter on a pty,
\* or raises when the binary is missing or not executable.
Spawn(i) ==
    /\ pc[i] = "spawn"
    /\ Sched(i)
    /\ IF nodeOK
       THEN /\ child' = [child EXCEPT ![i] = "starting"]
            /\ pc' = [pc EXCEPT ![i] = "expect"]
            /\ running' = i
            /\ UNCHANGED <<nodepc, err>>
       ELSE /\ Raise(i, "ExceptionPexpect")
            /\ UNCHANGED child
    /\ UNCHANGED <<clientVars, taken, frames, code, expectVars, loaded,
                   loadedBy, pos, pty, fileVars, nodeOK>>

\* Variant: the timeout index breaks out of the loop as well.
Dispatch_TimeoutBreaks(idx) ==
    CASE idx = IDX_DOT \/ idx = IDX_NL -> "send"
      [] OTHER -> "remove"

\* The if/elif on index in the read loop: a character or newline is sent,
\* EOF breaks out of the loop, any other index falls through to the next
\* iteration of while True.
Dispatch(idx) ==
    CASE idx = IDX_DOT \/ idx = IDX_NL -> "send"
      [] idx = IDX_EOF -> "remove"
      [] OTHER -> "expect"

\* index = child.expect(['.', '\n', EOF, TIMEOUT], timeout=1), up to the
\* point where the call has a result or its wait has run out.  Data already
\* buffered is searched first; otherwise what the pty holds is read and
\* searched.  With nothing to match, the call ends with EOF when the
\* interpreter has exited and its terminal is drained.  With the interpreter
\* alive and nothing to read, the call waits for the quiet interval; when the
\* wait runs out the call goes on in ExpectIsAlive.  EOF and TIMEOUT are in
\* the pattern list, so both are returned as an index and neither is raised.
Expect(i) ==
    /\ pc[i] = "expect"
    /\ Sched(i)
    /\ LET useBuf == Search(buffer[i]).index # NoIndex
           win == IF useBuf THEN buffer[i] ELSE buffer[i] \o pty[i]
           m == Search(win)
           matched == m.index # NoIndex
           eof == ~matched /\ child[i] = "exited"
           waits == ~matched /\ ~eof
           idx == IF matched THEN m.index ELSE IDX_EOF
       IN /\ index' = [index EXCEPT ![i] = IF waits THEN @ ELSE idx]
          /\ before' = [before EXCEPT ![i] =
                 IF matched THEN SubSeq(win, 1, m.start - 1)
                 ELSE IF eof THEN win ELSE @]
          /\ after' = [after EXCEPT ![i] =
                 IF matched THEN SubSeq(win, m.start, m.end)
                 ELSE IF eof THEN EOFMark ELSE @]
          /\ buffer' = [buffer EXCEPT ![i] =
                 IF matched THEN SubSeq(win, m.end + 1, Len(win))
                 ELSE IF eof THEN <<>> ELSE win]
          /\ pty' = IF useBuf THEN pty ELSE [pty EXCEPT ![i] = <<>>]
          /\ pc' = [pc EXCEPT ![i] =
                 IF waits THEN "isalive" ELSE Dispatch(idx)]
    /\ running' = AfterExpect(i)
    /\ UNCHANGED <<clientVars, nodeVars, frames, code, child, loaded,
                   loadedBy, pos, fileVars, nodeOK>>

\* The end of a wait of child.expect that ran out with nothing to read: the
\* call tests whether the interpreter is alive and does not look at the pty
\* again.  A dead interpreter gives EOF, whatever it wrote to the pty after
\* the wait ran out; a live one gives TIMEOUT.
ExpectIsAlive(i) ==
    /\ pc[i] = "isalive"
    /\ Sched(i)
    /\ LET eof == child[i] = "exited"
           idx == IF eof THEN IDX_EOF ELSE IDX_TIMEOUT
       IN /\ index' = [index EXCEPT ![i] = idx]
          /\ before' = [before EXCEPT ![i] = buffer[i]]
          /\ after' = [after EXCEPT ![i] =
                 IF eof THEN EOFMark ELSE TIMEOUTMark]
          /\ buffer' = [buffer EXCEPT ![i] = IF eof THEN <<>> ELSE @]
          /\ pc' = [pc EXCEPT ![i] = Dispatch(idx)]
    /\ running' = AfterExpect(i)
    /\ UNCHANGED <<clientVars, nodeVars, frames, code, procVars, fileVars,
                   nodeOK>>

\* The local `child` is the only reference to the spawn object.  When the
\* frame of execute_NODE is released the object is finalized (CPython
\* reference counting), and its finalizer closes the pty and terminates an
\* interpreter that is still alive.
Finalized(ch) == IF ch \in {"starting", "running"} THEN "killed" ELSE ch

\* An exception keeps the frame it left alive for as long as it is held.
\* NODE's except clause drops ConnectionClosedOK before NODE returns, with no
\* await in between; any other exception leaves NODE still holding the frame.
ChildAfterRaise(i, exc) ==
    IF exc = "ConnectionClosedOK" THEN Finalized(child[i]) ELSE child[i]

\* await websocket.send(child.after): the frame goes to the connection the
\* invocation was called with, or the closed connection raises.  The await
\* is where the task can be suspended.
Send(i) ==
    /\ pc[i] = "send"
    /\ Sched(i)
    /\ LET c == ConnOf(i) IN
        IF conn[c] = "open"
        THEN /\ frames' = [frames EXCEPT ![c] =
                    Append(@, [text |-> SentText(i), inv |-> NumOf(i),
                               by |-> loadedBy[i]])]
             /\ pc' = [pc EXCEPT ![i] = "expect"]
             /\ running' = NoInv
             /\ UNCHANGED <<nodepc, err>>
             /\ UNCHANGED child
        ELSE LET exc == IF conn[c] = "closedOK" THEN "ConnectionClosedOK"
                        ELSE "ConnectionClosedError" IN
             /\ Raise(i, exc)
             /\ child' = [child EXCEPT ![i] = ChildAfterRaise(i, exc)]
             /\ UNCHANGED frames
    /\ UNCHANGED <<clientVars, taken, code, expectVars, loaded, loadedBy, pos,
                   pty, fileVars, nodeOK>>

\* The exception that left NODE is dropped by NODE's caller: the frame of
\* execute_NODE is released and the interpreter it left alive is terminated.
ReleaseException(i) ==
    /\ pc[i] = "raised"
    /\ nodepc[ConnOf(i)] = "failed"
    /\ running = NoInv
    /\ child[i] # Finalized(child[i])
    /\ child' = [child EXCEPT ![i] = Finalized(child[i])]
    /\ UNCHANGED <<clientVars, nodeVars, frames, pc, code, expectVars, loaded,
                   loadedBy, pos, pty, fileVars, nodeOK, running>>

\* Variant: a missing file is ignored by the removal.
Remove_IgnoreMissing(i) ==
    /\ pc[i] = "remove"
    /\ Sched(i)
    /\ file' = Absent
    /\ fileBy' = NoInv
    /\ lost' = [j \in Inv |->
                   IF j # i /\ HasUnit(j) THEN "removed" ELSE lost[j]]
    /\ pc' = [pc EXCEPT ![i] = "returned"]
    /\ nodepc' = [nodepc EXCEPT ![ConnOf(i)] = "recv"]
    /\ running' = NoInv
    /\ UNCHANGED <<clientVars, taken, err, frames, code, expectVars,
                   procVars, nodeOK>>

\* os.remove(TEMP_NODE_FILE), then the return to NODE's async for.
Remove(i) ==
    /\ pc[i] = "remove"
    /\ Sched(i)
    /\ IF file # Absent
       THEN /\ file' = Absent
            /\ fileBy' = NoInv
            /\ lost' = [j \in Inv |->
                           IF j # i /\ HasUnit(j) THEN "removed"
                           ELSE lost[j]]
            /\ pc' = [pc EXCEPT ![i] = "returned"]
            /\ nodepc' = [nodepc EXCEPT ![ConnOf(i)] = "recv"]
            /\ running' = NoInv
            /\ UNCHANGED err
       ELSE /\ Raise(i, "FileNotFoundError")
            /\ UNCHANGED fileVars
    /\ UNCHANGED <<clientVars, taken, frames, code, expectVars, procVars,
                   nodeOK>>

\* ------------------------------------------------------ interpreter process
\* node opens and reads temp.js, whatever it holds at that moment.
ProcLoad(i) ==
    /\ child[i] = "starting"
    /\ child' = [child EXCEPT ![i] = "running"]
    /\ loaded' = [loaded EXCEPT ![i] = file]
    /\ loadedBy' = [loadedBy EXCEPT ![i] = fileBy]
    /\ UNCHANGED <<clientVars, nodeVars, frames, pc, code, expectVars, pos,
                   pty, fileVars, nodeOK, running>>

\* The program writes its next character to the terminal.
ProcWrite(i) ==
    /\ child[i] = "running"
    /\ pos[i] < Len(Output(loaded[i]))
    /\ pty' = [pty EXCEPT ![i] = Append(@, Output(loaded[i])[pos[i] + 1])]
    /\ pos' = [pos EXCEPT ![i] = @ + 1]
    /\ UNCHANGED <<clientVars, nodeVars, frames, pc, code, expectVars, child,
                   loaded, loadedBy, fileVars, nodeOK, running>>

\* The program has printed everything and the process exits.
ProcExit(i) ==
    /\ child[i] = "running"
    /\ pos[i] = Len(Output(loaded[i]))
    /\ Halts(loaded[i])
    /\ child' = [child EXCEPT ![i] = "exited"]
    /\ UNCHANGED <<clientVars, nodeVars, frames, pc, code, expectVars, loaded,
                   loadedBy, pos, pty, fileVars, nodeOK, running>>

\* -------------------------------------------------------------------- spec
Next ==
    \/ \E c \in Conns, k \in Codes : ClientSend(c, k)
    \/ \E c \in Conns, how \in {"closedOK", "closedErr"} : ClientClose(c, how)
    \/ \E c \in Conns : Recv(c)
    \/ \E c \in Conns : RecvClosed(c)
    \/ \E i \in Inv : Write(i)
    \/ \E i \in Inv : Spawn(i)
    \/ \E i \in Inv : Expect(i)
    \/ \E i \in Inv : ExpectIsAlive(i)
    \/ \E i \in Inv : Send(i)
    \/ \E i \in Inv : Remove(i)
    \/ \E i \in Inv : ReleaseException(i)
    \/ \E i \in Inv : ProcLoad(i)
    \/ \E i \in Inv : ProcWrite(i)
    \/ \E i \in Inv : ProcExit(i)

Spec == Init /\ [][Next]_vars

\* ================================================================== claims
InFlight(i) ==
    pc[i] \in {"write", "spawn", "expect", "isalive", "send", "remove"}
Ended(i) == pc[i] \in {"returned", "raised"}
Alive(i) == child[i] \in {"starting", "running"}
SpawnFailed(i) == pc[i] = "raised" /\ child[i] = None
SendFailed(i) == pc[i] = "raised" /\ index[i] \in {IDX_DOT, IDX_NL}

RECURSIVE ConcatInv(_, _)
\* Concatenation of the texts of the frames of fs that invocation n sent.
ConcatInv(fs, n) ==
    IF fs = <<>> THEN <<>>
    ELSE (IF Head(fs).inv = n THEN Head(fs).text ELSE <<>>)
         \o ConcatInv(Tail(fs), n)

SentBy(i) == ConcatInv(frames[ConnOf(i)], NumOf(i))
IsPrefix(s, t) == Len(s) <= Len(t) /\ SubSeq(t, 1, Len(s)) = s

\* C1 (as claimed): once expect has reported TIMEOUT for an invocation, the
\* invocation has left the read loop: it neither waits for output nor sends.
C1_TimeoutExitsLoop ==
    \A i \in Inv : index[i] = IDX_TIMEOUT
        => pc[i] \notin {"expect", "isalive", "send"}

\* C2 (as claimed): whenever an invocation ends by returning or by a failed
\* spawn, temp.js is absent at that moment.
C2_UnitAbsentAfterRun ==
    [][\A i \in Inv :
          (InFlight(i) /\ (pc'[i] = "returned" \/ SpawnFailed(i)'))
              => file' = Absent]_vars

\* C3: a frame is only ever sent by the latest invocation of its connection:
\* once the run for payload N+1 has started, no frame of payload N follows.
C3_FramesBeforeNextRun ==
    [][\A c \in Conns :
          Len(frames'[c]) > Len(frames[c])
              => frames'[c][Len(frames'[c])].inv = taken'[c]]_vars

C3_Witness ==
    \E c \in Conns : \E k1, k2 \in 1..Len(frames[c]) :
        frames[c][k1].inv = 1 /\ frames[c][k2].inv = 2

\* C4: per connection at most one invocation is in flight and at most one
\* interpreter is alive, and every earlier invocation has ended.
C4_OneInvocationPerConnection ==
    \A c \in Conns :
        /\ Cardinality({n \in 1..MaxPayloads : InFlight(<<c, n>>)}) <= 1
        /\ Cardinality({n \in 1..MaxPayloads : Alive(<<c, n>>)}) <= 1
        /\ \A n \in 1..MaxPayloads : n < taken[c] => Ended(<<c, n>>)

C4_Witness ==
    \E c \in Conns :
        /\ taken[c] = 1
        /\ pc[<<c, 1>>] = "expect"
        /\ child[<<c, 1>>] = "running"
        /\ inbox[c] # <<>>

\* C5: every interpreter runs the source text its own invocation wrote, and
\* every frame a connection received came from an interpreter running a
\* payload of that connection.
C5_NoCrossConnectionLeak ==
    /\ \A i \in Inv : child[i] \in {"running", "exited"}
           => loadedBy[i] = i /\ loaded[i] = code[i]
    /\ \A c \in Conns : \A k \in 1..Len(frames[c]) :
           frames[c][k].by = <<c, frames[c][k].inv>>

C5_Witness ==
    \E i, j \in Inv :
        /\ ConnOf(i) # ConnOf(j)
        /\ pc[i] = "expect" /\ Alive(i)
        /\ pc[j] = "expect" /\ Alive(j)
        /\ SentBy(i) # <<>>
        /\ SentBy(j) # <<>>

\* C6 (as claimed): while an invocation runs, temp.js exists and holds the
\* text that invocation wrote.
C6_UnitExclusive ==
    \A i \in Inv : HasUnit(i) => file = code[i] /\ fileBy = i

\* C7 (as claimed): after an invocation that was streaming has had a send
\* fail on the closed connection, no exception has left NODE and the
\* invocation's unit file is gone.
C7_DisconnectHandled ==
    \A i \in Inv : (SendFailed(i) /\ SentBy(i) # <<>>)
        => err[ConnOf(i)] = None /\ fileBy # i

\* C8 (as claimed): while an invocation waits in its read loop on a live
\* interpreter that has been silent for a quiet interval, another connection
\* with a payload pending can have it accepted.
C8_OtherConnectionProgress ==
    \A i \in Inv : \A c \in Conns :
        ( /\ ConnOf(i) # c
          /\ pc[i] = "expect" /\ index[i] = IDX_TIMEOUT
          /\ buffer[i] = <<>> /\ pty[i] = <<>> /\ Alive(i)
          /\ nodepc[c] = "recv" /\ inbox[c] # <<>> /\ taken[c] < MaxPayloads )
        => ENABLED Recv(c)

\* C9 (as claimed): the frames an invocation has sent, concatenated, are a
\* prefix of the terminal output of its interpreter, and the whole of it once
\* expect has reported EOF.
C9_FramesArePrefix ==
    \A i \in Inv :
        /\ IsPrefix(SentBy(i), Produced(i))
        /\ index[i] = IDX_EOF => SentBy(i) = Produced(i)

\* C10 (as claimed): after a failed spawn the connection has received a
\* frame for that invocation and its NODE loop has not failed.
C10_SpawnFailureReported ==
    \A i \in Inv : SpawnFailed(i) =>
        /\ \E k \in 1..Len(frames[ConnOf(i)]) :
               frames[ConnOf(i)][k].inv = NumOf(i)
        /\ nodepc[ConnOf(i)] # "failed"

RemoveFailed(i) == pc[i] = "raised" /\ index[i] = IDX_EOF
NoneRaised(c) == \A n \in 1..MaxPayloads : pc[<<c, n>>] # "raised"
FrameCount(i) ==
    Cardinality({k \in 1..Len(frames[ConnOf(i)]) :
                    frames[ConnOf(i)][k].inv = NumOf(i)})

\* C11 (as claimed): an invocation that has left the read loop on EOF ends
\* by returning, even when temp.js was already absent, and no
\* FileNotFoundError leaves NODE.
C11_CleanupFailureNonFatal ==
    \A i \in Inv : (index[i] = IDX_EOF /\ Ended(i))
        => pc[i] = "returned" /\ err[ConnOf(i)] # "FileNotFoundError"

\* C12: when NODE ends while waiting for a payload, it ends silently after a
\* normal close and with ConnectionClosedError leaving NODE after any other
\* close.
C12_CloseEndsLoop ==
    \A c \in Conns :
        (nodepc[c] \in {"done", "failed"} /\ NoneRaised(c))
        => \/ conn[c] = "closedOK" /\ nodepc[c] = "done" /\ err[c] = None
           \/ /\ conn[c] = "closedErr" /\ nodepc[c] = "failed"
              /\ err[c] = "ConnectionClosedError"

C12_Witness ==
    \E c, d \in Conns :
        /\ NoneRaised(c) /\ nodepc[c] = "done" /\ taken[c] >= 1
        /\ NoneRaised(d) /\ nodepc[d] = "failed"

\* C13 (as claimed): once an invocation has ended, the interpreter it
\* spawned is no longer running.
C13_ProcessReleased ==
    \A i \in Inv : Ended(i) => ~Alive(i)

\* C14 (as claimed): an invocation whose interpreter has printed its output
\* and exited, on a connection that is still open, ends by returning with
\* the whole output forwarded; it never ends in an exception.
C14_HaltingRunReturns ==
    \A i \in Inv :
        (Ended(i) /\ child[i] = "exited" /\ conn[ConnOf(i)] = "open")
        => pc[i] = "returned" /\ SentBy(i) = Produced(i)

\* C15: an invocation that has raised stays ended, no invocation starts a
\* second interpreter, and the exception that ends an invocation ends NODE
\* (it reaches the caller).
C15_NoRetry ==
    [][\A i \in Inv :
          /\ pc[i] = "raised" => pc'[i] = "raised"
          /\ (child[i] # None /\ child'[i] = "starting")
                 => child[i] = "starting"
          /\ (pc[i] # "raised" /\ pc'[i] = "raised")
                 => nodepc'[ConnOf(i)] \in {"done", "failed"}]_vars

C15_Witness ==
    \E i \in Inv :
        /\ SendFailed(i) /\ SentBy(i) # <<>>
        /\ inbox[ConnOf(i)] # <<>>
        /\ nodepc[ConnOf(i)] = "failed"

\* C16: when an invocation is about to spawn, temp.js holds the text that
\* invocation wrote and the invocation still holds the event loop.
C16_UnitWrittenAtSpawn ==
    \A i \in Inv : pc[i] = "spawn"
        => file = code[i] /\ fileBy = i /\ running = i

C16_Witness ==
    \E i, j \in Inv :
        /\ ConnOf(i) # ConnOf(j)
        /\ pc[i] = "spawn"
        /\ pc[j] = "expect" /\ Alive(j)

\* C17: an invocation is at its file removal, or has returned, only with EOF
\* as the last result of expect and its interpreter exited.
C17_RemoveOnlyAfterEOF ==
    \A i \in Inv : pc[i] \in {"remove", "returned"}
        => index[i] = IDX_EOF /\ child[i] = "exited"

C17_Witness ==
    \E i \in Inv : pc[i] = "returned" /\ child[i] = "exited" /\ file = Absent

\* C18: every frame is one character, child.before is always empty, and an
\* invocation has sent as many frames as characters.
C18_OneCharFrames ==
    /\ \A c \in Conns : \A k \in 1..Len(frames[c]) :
           Len(frames[c][k].text) = 1
    /\ \A i \in Inv : before[i] = <<>>
    /\ \A i \in Inv : FrameCount(i) = Len(SentBy(i))

C18_Witness ==
    \E c \in Conns :
        /\ Len(frames[c]) >= 2
        /\ frames[c][1].text = <<"a">>
        /\ frames[c][2].text = <<"\n">>

\* C19 (as claimed): an invocation that reaches its removal after another
\* invocation, overlapping with it, has finished and removed temp.js, fails
\* with FileNotFoundError, which leaves NODE and ends the connection's loop.
C19_SecondFinisherFails ==
    \A i \in Inv : (lost[i] # "no" /\ index[i] = IDX_EOF /\ Ended(i))
        => /\ pc[i] = "raised"
           /\ err[ConnOf(i)] = "FileNotFoundError"
           /\ nodepc[ConnOf(i)] = "failed"

\* C19 (amended): the invocation that finishes second fails in that way
\* exactly when temp.js has not been written again since the other
\* invocation removed it; otherwise its removal succeeds and it returns.
C19_SecondFinisherFailsUnlessRewritten ==
    \A i \in Inv : (index[i] = IDX_EOF /\ Ended(i))
        => IF lost[i] = "removed"
           THEN /\ pc[i] = "raised"
                /\ err[ConnOf(i)] = "FileNotFoundError"
                /\ nodepc[ConnOf(i)] = "failed"
           ELSE pc[i] = "returned"

C19_Witness ==
    \E i \in Inv : lost[i] = "removed" /\ RemoveFailed(i)
                       /\ nodepc[ConnOf(i)] = "failed"
====
